---------------------------- MODULE Spec2Model ----------------------------
(***************************************************************************)
(* A model of pypes (nipype workflows for diffusion MRI):                  *)
(*   - write_acquisition_parameters (src/pypes/dti.py), the function that  *)
(*     parses the header annotation and writes diff.acqp and diff.index;   *)
(*   - the workflow graphs wired by fsl_dti_preprocessing,                 *)
(*     attach_fsl_dti_preprocessing, input_file_wf, in_out_workflow and    *)
(*     the two workflows of src/pypes/preproc/registration.py, their       *)
(*     construction and their expansion over the subject and session axes; *)
(*   - run_wf (src/pypes/run.py) and the execution of the graph by the     *)
(*     engine it calls.                                                    *)
(*                                                                         *)
(* Text is a sequence of one-character strings, so that splitting,         *)
(* parsing and formatting are computed character by character.             *)
(***************************************************************************)
EXTENDS Integers, Sequences, FiniteSets, TLC

VARIABLES
    fs,        \* files of the working directory: name -> content (option)
    wa_pc,     \* position inside write_acquisition_parameters
    wa_in,     \* the image loaded from in_file: [shape, descrip]
    wa_loc,    \* the function's locals
    wa_err,    \* the exception raised, if any (option)
    wf,        \* the workflow: [nodes, edges], and while it is built also
               \* [interface, substitutions]
    run_pc,    \* "built" until run_wf is called, then "running"
    run_args,  \* the arguments run_wf was called with
    run_call,  \* the call of wf.run that run_wf makes
    status,    \* the execution state of every node of wf
    entered,   \* the nodes that have entered Ready (history)
    build_pc,  \* position of the construction of a workflow
    build_args,\* the arguments the workflow was built with
    build_err, \* the error that stopped the construction, if any (option)
    iterables, \* infosrc.iterables: the axes, <<field, values>> in order
    instances  \* the instances the engine expands the workflow into

wa_vars == <<fs, wa_pc, wa_in, wa_loc, wa_err>>
run_vars == <<wf, run_pc, run_args, run_call, status, entered>>
build_vars == <<build_pc, build_args, build_err, iterables, instances>>
vars == <<fs, wa_pc, wa_in, wa_loc, wa_err, wf, run_pc, run_args, run_call, status, entered,
          build_pc, build_args, build_err, iterables, instances>>

-----------------------------------------------------------------------------
(* Bounds of the model.                                                    *)

MaxSegs == 3        \* segments of the header annotation
MaxVolumes == 2     \* size of the last dimension of the image
MaxCpus == 2        \* largest n_cpus given to run_wf
MaxIds == 2         \* longest list of subject ids or of session names

-----------------------------------------------------------------------------
(* Options (Python's None) and small helpers.                             *)

None == <<>>
Some(v) == <<v>>

Max(S) == CHOOSE x \in S : \A y \in S : y <= x
Min(S) == CHOOSE x \in S : \A y \in S : x <= y

RECURSIVE Pow10(_)
Pow10(n) == IF n = 0 THEN 1 ELSE 10 * Pow10(n - 1)

RECURSIVE Repeat(_, _)
Repeat(x, n) == IF n <= 0 THEN <<>> ELSE <<x>> \o Repeat(x, n - 1)

-----------------------------------------------------------------------------
(* Python str.split / str.join / dict.                                     *)

\* index of the first occurrence of character c in s, 0 if there is none
Find(s, c) ==
    IF \E i \in 1..Len(s) : s[i] = c
    THEN Min({i \in 1..Len(s) : s[i] = c})
    ELSE 0

\* s.split(c): every occurrence of c separates; never an empty list
RECURSIVE Split(_, _)
Split(s, c) ==
    LET i == Find(s, c)
    IN  IF i = 0 THEN <<s>>
        ELSE <<SubSeq(s, 1, i - 1)>> \o Split(SubSeq(s, i + 1, Len(s)), c)

\* s.split(c, 1): at most one split, at the first occurrence of c
Split1(s, c) ==
    LET i == Find(s, c)
    IN  IF i = 0 THEN <<s>>
        ELSE <<SubSeq(s, 1, i - 1), SubSeq(s, i + 1, Len(s))>>

\* c.join(parts)
RECURSIVE Join(_, _)
Join(parts, c) ==
    IF parts = <<>> THEN <<>>
    ELSE IF Len(parts) = 1 THEN parts[1]
    ELSE parts[1] \o <<c>> \o Join(Tail(parts), c)

\* dict(items): every item must have exactly two elements, else ValueError
\* naming the first offending element; a later duplicate key wins.
DictBad(items) == {i \in 1..Len(items) : Len(items[i]) # 2}
Dict(items) ==
    [k \in {items[i][1] : i \in 1..Len(items)} |->
        items[Max({i \in 1..Len(items) : items[i][1] = k})][2]]

\* d.get(k)
Get(d, k) == IF k \in DOMAIN d THEN Some(d[k]) ELSE None

-----------------------------------------------------------------------------
(* Python float: float(text), multiplication, and its text form.           *)
(* A float is modelled as an exact decimal s * m * 10^e (m not a multiple  *)
(* of 10), or nan, or a signed infinity; the rounding of a binary double   *)
(* is not modelled.                                                        *)

DigitChars == <<"0", "1", "2", "3", "4", "5", "6", "7", "8", "9">>
IsDigit(c) == \E i \in 1..10 : DigitChars[i] = c
DigitVal(c) == (CHOOSE i \in 1..10 : DigitChars[i] = c) - 1
AllDigits(s) == \A i \in 1..Len(s) : IsDigit(s[i])
IsSpace(c) == c \in {" ", "\t", "\n"}

RECURSIVE ToInt(_)
ToInt(s) == IF s = <<>> THEN 0 ELSE 10 * ToInt(SubSeq(s, 1, Len(s) - 1)) + DigitVal(s[Len(s)])

RECURSIVE IntDigits(_)
IntDigits(n) == IF n < 10 THEN <<DigitChars[n + 1]>> ELSE IntDigits(n \div 10) \o <<DigitChars[(n % 10) + 1]>>

RECURSIVE LStrip(_)
LStrip(s) == IF s # <<>> /\ IsSpace(s[1]) THEN LStrip(Tail(s)) ELSE s
RECURSIVE RStrip(_)
RStrip(s) == IF s # <<>> /\ IsSpace(s[Len(s)]) THEN RStrip(SubSeq(s, 1, Len(s) - 1)) ELSE s
Strip(s) == RStrip(LStrip(s))

Fin(s, m, e) == [k |-> "fin", s |-> s, m |-> m, e |-> e]
NaN == [k |-> "nan", s |-> 1, m |-> 0, e |-> 0]
Inf(s) == [k |-> "inf", s |-> s, m |-> 0, e |-> 0]

RECURSIVE Norm(_, _, _)
Norm(s, m, e) ==
    IF m = 0 THEN Fin(s, 0, 0)
    ELSE IF m % 10 = 0 THEN Norm(s, m \div 10, e + 1)
    ELSE Fin(s, m, e)

\* float(text): [ok |-> FALSE] stands for ValueError (could not convert)
NoFloat == [ok |-> FALSE, val |-> NaN]
YesFloat(v) == [ok |-> TRUE, val |-> v]
ParseFloat(text) ==
    LET t    == Strip(text)
        sgn  == IF t # <<>> /\ t[1] = "-" THEN -1 ELSE 1
        body == IF t # <<>> /\ t[1] \in {"+", "-"} THEN Tail(t) ELSE t
        ei   == IF Find(body, "e") # 0 THEN Find(body, "e") ELSE Find(body, "E")
        mant == IF ei = 0 THEN body ELSE SubSeq(body, 1, ei - 1)
        expo == IF ei = 0 THEN <<>> ELSE SubSeq(body, ei + 1, Len(body))
        esgn == IF expo # <<>> /\ expo[1] = "-" THEN -1 ELSE 1
        edig == IF expo # <<>> /\ expo[1] \in {"+", "-"} THEN Tail(expo) ELSE expo
        di   == Find(mant, ".")
        ip   == IF di = 0 THEN mant ELSE SubSeq(mant, 1, di - 1)
        fp   == IF di = 0 THEN <<>> ELSE SubSeq(mant, di + 1, Len(mant))
    IN  IF body = <<"n", "a", "n">> THEN YesFloat(NaN)
        ELSE IF body \in {<<"i", "n", "f">>, <<"i", "n", "f", "i", "n", "i", "t", "y">>}
             THEN YesFloat(Inf(sgn))
        ELSE IF /\ AllDigits(ip) /\ AllDigits(fp) /\ Len(ip) + Len(fp) >= 1
                /\ (ei = 0 \/ (edig # <<>> /\ AllDigits(edig)))
             THEN YesFloat(Norm(sgn, ToInt(ip \o fp), esgn * ToInt(edig) - Len(fp)))
        ELSE NoFloat

\* a * b
FloatMul(a, b) ==
    IF a.k = "nan" \/ b.k = "nan" THEN NaN
    ELSE IF a.k = "inf" \/ b.k = "inf"
         THEN IF (a.k = "fin" /\ a.m = 0) \/ (b.k = "fin" /\ b.m = 0) THEN NaN
              ELSE Inf(a.s * b.s)
    ELSE Norm(a.s * b.s, a.m * b.m, a.e + b.e)

FloatOfInt(n) == IF n < 0 THEN Norm(-1, -n, 0) ELSE Norm(1, n, 0)

\* "{}".format(x) of a float: positional notation when the decimal exponent
\* of the leading digit is in -4..15, else d.ddde+XX
FloatStr(v) ==
    LET sg == IF v.s < 0 THEN <<"-">> ELSE <<>>
        D  == IntDigits(v.m)
        L  == Len(D)
        pt == L + v.e          \* digits before the decimal point
        X  == pt - 1           \* decimal exponent of the leading digit
        xd == IntDigits(IF X < 0 THEN -X ELSE X)
    IN  IF v.k = "nan" THEN <<"n", "a", "n">>
        ELSE IF v.k = "inf" THEN sg \o <<"i", "n", "f">>
        ELSE IF v.m = 0 THEN sg \o <<"0", ".", "0">>
        ELSE IF X < -4 \/ X >= 16
             THEN sg \o <<D[1]>> \o (IF L > 1 THEN <<".">> \o Tail(D) ELSE <<>>)
                  \o <<"e", IF X < 0 THEN "-" ELSE "+">>
                  \o (IF Len(xd) < 2 THEN <<"0">> ELSE <<>>) \o xd
        ELSE IF v.e >= 0 THEN sg \o D \o Repeat("0", v.e) \o <<".", "0">>
        ELSE IF pt > 0 THEN sg \o SubSeq(D, 1, pt) \o <<".">> \o SubSeq(D, pt + 1, L)
        ELSE sg \o <<"0", ".">> \o Repeat("0", -pt) \o D

-----------------------------------------------------------------------------
(* write_acquisition_parameters(in_file)                                   *)

K_phaseDir == <<"p", "h", "a", "s", "e", "D", "i", "r">>
K_dwell == <<"d", "w", "e", "l", "l">>
acqp_file == "diff.acqp"
index_file == "diff.index"

\* Segments the header annotations of the model are built from.
Segments ==
    { K_phaseDir \o <<"=", "+">>,
      K_phaseDir \o <<"=", "-">>,
      K_phaseDir \o <<"=", " ", "+">>,
      K_dwell \o <<"=", "0", ".", "3", "9">>,
      K_dwell \o <<"=", "-", ".", "5">>,
      K_dwell \o <<"=", "a", "b", "c">>,
      <<"e", "p", "i", "=", "6", "=", "4">>,
      <<"T", "E">>,
      <<>> }

\* header["descrip"][()] values, taken as text: 1..MaxSegs segments joined
\* by ";"
RECURSIVE SegLists(_)
SegLists(n) ==
    IF n = 0 THEN {<<>>}
    ELSE LET S == SegLists(n - 1)
         IN  S \cup {<<g>> \o l : g \in Segments, l \in {x \in S : Len(x) = n - 1}}
Descrips == {Join(l, ";") : l \in SegLists(MaxSegs) \ {<<>>}}

\* image.shape: a 4D series, or a 3D image
Shapes == {<<2, 2, 2, n>> : n \in 1..MaxVolumes} \cup {<<2, 2, MaxVolumes>>}
Images == [shape : Shapes, descrip : Descrips]

StaleText == <<"o", "l", "d", "\n">>
NoImage == [shape |-> <<>>, descrip |-> <<>>]
NoLocals ==
    [n_directions |-> 0, descrip |-> <<>>, pe_axis |-> <<>>,
     epi_factor |-> 0, total_readout_time |-> NaN]

Raise(type, line, msg) == Some([type |-> type, line |-> line, msg |-> msg])

\* "{}".format(x) for x a str or None
PyStr(opt) == IF opt = None THEN <<"N", "o", "n", "e">> ELSE opt[1]

PhaseDirMsg ==
    <<"u", "n", "e", "x", "p", "e", "c", "t", "e", "d", " ", "v", "a", "l", "u", "e", " ",
      "f", "o", "r", " ">> \o K_phaseDir \o <<":", " ">>

\* lines 125-127: load the image, read its last dimension and its header
Load(image) ==
    /\ wa_in' = image
    /\ wa_loc' = [NoLocals EXCEPT !.n_directions = image.shape[Len(image.shape)]]
    /\ wa_pc' = "l128"
    /\ UNCHANGED <<fs, wa_err>>
    /\ UNCHANGED <<run_vars, build_vars>>

Call ==
    /\ wa_pc = "idle"
    /\ \E image \in Images : Load(image)

\* fault variant: empty segments are skipped before the dict is built
HeaderItems_SkipEmpty(text) ==
    LET segs == SelectSeq(Split(text, ";"), LAMBDA g : g # <<>>)
    IN  [i \in 1..Len(segs) |-> Split1(segs[i], "=")]

\* line 128: dict([item.split("=", 1) for item in descrip.split(";")])
HeaderItems(text) ==
    LET segs == Split(text, ";")
    IN  [i \in 1..Len(segs) |-> Split1(segs[i], "=")]

\* fault variant: diff.acqp is opened for writing before the header is read
ParseHeader_OpensAcqp ==
    /\ wa_pc = "l128"
    /\ LET items == HeaderItems(wa_in.descrip)
           bad   == DictBad(items)
       IN  IF bad # {}
           THEN /\ wa_err' = Raise("ValueError", 128, IntDigits(Min(bad) - 1))
                /\ wa_pc' = "raised"
                /\ UNCHANGED wa_loc
           ELSE /\ wa_loc' = [wa_loc EXCEPT !.descrip = Dict(items)]
                /\ wa_pc' = "l130"
                /\ UNCHANGED wa_err
    /\ fs' = [fs EXCEPT ![acqp_file] = Some(<<>>)]
    /\ UNCHANGED wa_in
    /\ UNCHANGED <<run_vars, build_vars>>

ParseHeader ==
    /\ wa_pc = "l128"
    /\ LET items == HeaderItems(wa_in.descrip)
           bad   == DictBad(items)
       IN  IF bad # {}
           THEN /\ wa_err' = Raise("ValueError", 128, IntDigits(Min(bad) - 1))
                /\ wa_pc' = "raised"
                /\ UNCHANGED wa_loc
           ELSE /\ wa_loc' = [wa_loc EXCEPT !.descrip = Dict(items)]
                /\ wa_pc' = "l130"
                /\ UNCHANGED wa_err
    /\ UNCHANGED <<fs, wa_in>>
    /\ UNCHANGED <<run_vars, build_vars>>

\* fault variant: any other phaseDir falls back to the "+" axis
PeAxis_Fallback(phaseDir) ==
    IF phaseDir = Some(<<"-">>) THEN Some(<<"0", " ", "-", "1", " ", "0">>)
    ELSE Some(<<"0", " ", "1", " ", "0">>)

\* fault variant: the "-" axis loses its sign
PeAxis_NoSign(phaseDir) ==
    IF phaseDir \in {Some(<<"+">>), Some(<<"-">>)} THEN Some(<<"0", " ", "1", " ", "0">>)
    ELSE None

\* lines 130-135: the phase encoding axis
PeAxis(phaseDir) ==
    IF phaseDir = Some(<<"+">>) THEN Some(<<"0", " ", "1", " ", "0">>)
    ELSE IF phaseDir = Some(<<"-">>) THEN Some(<<"0", " ", "-", "1", " ", "0">>)
    ELSE None

SelectPeAxis ==
    /\ wa_pc = "l130"
    /\ LET phaseDir == Get(wa_loc.descrip, K_phaseDir)
           axis     == PeAxis(phaseDir)
       IN  IF axis = None
           THEN /\ wa_err' = Raise("ValueError", 135, PhaseDirMsg \o PyStr(phaseDir))
                /\ wa_pc' = "raised"
                /\ UNCHANGED wa_loc
           ELSE /\ wa_loc' = [wa_loc EXCEPT !.pe_axis = axis[1]]
                /\ wa_pc' = "l138"
                /\ UNCHANGED wa_err
    /\ UNCHANGED <<fs, wa_in>>
    /\ UNCHANGED <<run_vars, build_vars>>

\* lines 137-140: epi_factor = 128;
\* total_readout_time = (epi_factor - 1) * float(descrip["dwell"]) * 1e-3
EpiFactor == 128
MilliSeconds == Fin(1, 1, -3)
\* fault variant: the EPI factor is used without the "- 1"
TotalReadoutTime_NoMinusOne(epi_factor, dwell) ==
    FloatMul(FloatMul(FloatOfInt(epi_factor), dwell), MilliSeconds)

TotalReadoutTime(epi_factor, dwell) ==
    FloatMul(FloatMul(FloatOfInt(epi_factor - 1), dwell), MilliSeconds)

\* fault variant: a missing or unreadable dwell is taken as 0.0
ReadoutOutcome_Default(descrip) ==
    LET f == IF K_dwell \in DOMAIN descrip THEN ParseFloat(descrip[K_dwell]) ELSE NoFloat
    IN  [err |-> None,
         val |-> TotalReadoutTime(EpiFactor, IF f.ok THEN f.val ELSE Fin(1, 0, 0))]

\* line 140: [err, val] of float(descrip["dwell"]) used in the product
ReadoutOutcome(descrip) ==
    IF K_dwell \notin DOMAIN descrip
    THEN [err |-> Raise("KeyError", 140, K_dwell), val |-> NaN]
    ELSE LET f == ParseFloat(descrip[K_dwell])
         IN  IF ~f.ok
             THEN [err |-> Raise("ValueError", 140, descrip[K_dwell]), val |-> NaN]
             ELSE [err |-> None, val |-> TotalReadoutTime(EpiFactor, f.val)]

ComputeReadout ==
    /\ wa_pc = "l138"
    /\ LET r == ReadoutOutcome(wa_loc.descrip)
       IN  IF r.err # None
           THEN /\ wa_err' = r.err
                /\ wa_pc' = "raised"
                /\ UNCHANGED wa_loc
           ELSE /\ wa_loc' = [wa_loc EXCEPT !.epi_factor = EpiFactor,
                                            !.total_readout_time = r.val]
                /\ wa_pc' = "l142"
                /\ UNCHANGED wa_err
    /\ UNCHANGED <<fs, wa_in>>
    /\ UNCHANGED <<run_vars, build_vars>>

\* lines 142-143: "{} {}\n".format(pe_axis, total_readout_time)
AcqpLine(pe_axis, total_readout_time) ==
    pe_axis \o <<" ">> \o FloatStr(total_readout_time) \o <<"\n">>

WriteAcqp ==
    /\ wa_pc = "l142"
    /\ fs' = [fs EXCEPT ![acqp_file] = Some(AcqpLine(wa_loc.pe_axis, wa_loc.total_readout_time))]
    /\ wa_pc' = "l144"
    /\ UNCHANGED <<wa_in, wa_loc, wa_err>>
    /\ UNCHANGED <<run_vars, build_vars>>

\* fault variant: one token too few
IndexLine_OffByOne(n_directions) == Join(Repeat(<<"1">>, n_directions - 1), " ") \o <<"\n">>

\* lines 144-147: "{}\n".format(" ".join(n_directions * ["1"])), then return
IndexLine(n_directions) == Join(Repeat(<<"1">>, n_directions), " ") \o <<"\n">>

WriteIndex ==
    /\ wa_pc = "l144"
    /\ fs' = [fs EXCEPT ![index_file] = Some(IndexLine(wa_loc.n_directions))]
    /\ wa_pc' = "returned"
    /\ UNCHANGED <<wa_in, wa_loc, wa_err>>
    /\ UNCHANGED <<run_vars, build_vars>>

WaInit ==
    /\ fs \in {[f \in {acqp_file, index_file} |-> None],
               [f \in {acqp_file, index_file} |-> Some(StaleText)]}
    /\ wa_pc = "idle"
    /\ wa_in = NoImage
    /\ wa_loc = NoLocals
    /\ wa_err = None

WaNext ==
    \/ Call
    \/ ParseHeader
    \/ SelectPeAxis
    \/ ComputeReadout
    \/ WriteAcqp
    \/ WriteIndex

-----------------------------------------------------------------------------
(* The workflow graphs.  A connection is written as in the sources,        *)
(*   <<source, destination, output, input>>,                               *)
(* where source and destination name a node or a sub-workflow and the      *)
(* ports are dotted paths ("eddy.in_file" is <<"eddy", "in_file">>).       *)

Conn(src, dst, out, in) == [src |-> src, dst |-> dst, out |-> out, in |-> in]

\* fields of the infosrc node (subject_session_input, lines 53-54)
field_names == <<"session_id", "subject_id">>

\* input_file_wf, line 107: infosrc.<field> -> select.<field>
input_file_connect ==
    {Conn("infosrc", "select", <<field_names[i]>>, <<field_names[i]>>) :
        i \in 1..Len(field_names)}

\* fault variant: eddy.out_corrected is not connected to dtifit.dwi
dti_connect_NoEddyToDtifit ==
    { Conn("write_acqp",  "eddy",        <<"out_acqp">>,           <<"in_acqp">>),
      Conn("write_acqp",  "eddy",        <<"out_index">>,          <<"in_index">>),
      Conn("extract_b0",  "gunzip_b0",   <<"roi_file">>,           <<"in_file">>),
      Conn("gunzip_b0",   "coreg_b0",    <<"out_file">>,           <<"target">>),
      Conn("brain_sel",   "coreg_b0",    <<"out">>,                <<"apply_to_files">>),
      Conn("coreg_b0",    "brain_split", <<"coregistered_files">>, <<"inlist">>),
      Conn("brain_split", "brain_merge", <<"out1">>,               <<"in_file">>),
      Conn("brain_split", "brain_merge", <<"out2">>,               <<"operand_files">>),
      Conn("brain_merge", "eddy",        <<"out_file">>,           <<"in_mask">>),
      Conn("brain_merge", "dtifit",      <<"out_file">>,           <<"mask">>) }

\* fault variant: eddy.in_mask is fed by brain_split too
dti_connect_MaskFedTwice ==
    { Conn("write_acqp",  "eddy",        <<"out_acqp">>,           <<"in_acqp">>),
      Conn("write_acqp",  "eddy",        <<"out_index">>,          <<"in_index">>),
      Conn("extract_b0",  "gunzip_b0",   <<"roi_file">>,           <<"in_file">>),
      Conn("gunzip_b0",   "coreg_b0",    <<"out_file">>,           <<"target">>),
      Conn("brain_sel",   "coreg_b0",    <<"out">>,                <<"apply_to_files">>),
      Conn("coreg_b0",    "brain_split", <<"coregistered_files">>, <<"inlist">>),
      Conn("brain_split", "brain_merge", <<"out1">>,               <<"in_file">>),
      Conn("brain_split", "brain_merge", <<"out2">>,               <<"operand_files">>),
      Conn("brain_split", "eddy",        <<"out1">>,               <<"in_mask">>),
      Conn("brain_merge", "eddy",        <<"out_file">>,           <<"in_mask">>),
      Conn("eddy",        "dtifit",      <<"out_corrected">>,      <<"dwi">>),
      Conn("brain_merge", "dtifit",      <<"out_file">>,           <<"mask">>) }

\* fsl_dti_preprocessing, lines 194-206
dti_connect ==
    { Conn("write_acqp",  "eddy",        <<"out_acqp">>,           <<"in_acqp">>),
      Conn("write_acqp",  "eddy",        <<"out_index">>,          <<"in_index">>),
      Conn("extract_b0",  "gunzip_b0",   <<"roi_file">>,           <<"in_file">>),
      Conn("gunzip_b0",   "coreg_b0",    <<"out_file">>,           <<"target">>),
      Conn("brain_sel",   "coreg_b0",    <<"out">>,                <<"apply_to_files">>),
      Conn("coreg_b0",    "brain_split", <<"coregistered_files">>, <<"inlist">>),
      Conn("brain_split", "brain_merge", <<"out1">>,               <<"in_file">>),
      Conn("brain_split", "brain_merge", <<"out2">>,               <<"operand_files">>),
      Conn("brain_merge", "eddy",        <<"out_file">>,           <<"in_mask">>),
      Conn("eddy",        "dtifit",      <<"out_corrected">>,      <<"dwi">>),
      Conn("brain_merge", "dtifit",      <<"out_file">>,           <<"mask">>) }

\* fault variant: the session does not reach the container
in_out_connect_SubjectTwice(session_names) ==
    IF session_names = None
    THEN { Conn("input_files", "datasink", <<"infosrc", "subject_id">>, <<"container">>) }
    ELSE { Conn("input_files", "joinpath", <<"infosrc", "subject_id">>, <<"arg1">>),
           Conn("input_files", "joinpath", <<"infosrc", "subject_id">>, <<"arg2">>),
           Conn("joinpath",    "datasink", <<"out">>,                   <<"container">>) }

\* in_out_workflow, lines 75-87: the datasink's container
in_out_connect(session_names) ==
    IF session_names = None
    THEN { Conn("input_files", "datasink", <<"infosrc", "subject_id">>, <<"container">>) }
    ELSE { Conn("input_files", "joinpath", <<"infosrc", "subject_id">>, <<"arg1">>),
           Conn("input_files", "joinpath", <<"infosrc", "session_id">>, <<"arg2">>),
           Conn("joinpath",    "datasink", <<"out">>,                   <<"container">>) }

\* attach_fsl_dti_preprocessing, lines 243-264; in_files and datasink are the
\* nodes of main_wf that lines 235-236 have found, anat_wf and dti_wf the
\* sub-workflows "spm_anat_preproc" and wf_name
attach_dti_connect(in_files, datasink, wf_name) ==
    { Conn(in_files, wf_name, <<"diff">>,      <<"eddy", "in_file">>),
      Conn(in_files, wf_name, <<"diff">>,      <<"write_acqp", "in_file">>),
      Conn(in_files, wf_name, <<"diff">>,      <<"extract_b0", "in_file">>),
      Conn(in_files, wf_name, <<"diff_bval">>, <<"dtifit", "bvals">>),
      Conn(in_files, wf_name, <<"diff_bvec">>, <<"dtifit", "bvecs">>),
      Conn(in_files, wf_name, <<"diff_bval">>, <<"eddy", "in_bval">>),
      Conn(in_files, wf_name, <<"diff_bvec">>, <<"eddy", "in_bvec">>),
      Conn("spm_anat_preproc", wf_name, <<"new_segment", "native_class_images">>,
                                        <<"brain_sel", "inlist">>),
      Conn("spm_anat_preproc", wf_name, <<"gunzip_anat", "out_file">>,
                                        <<"coreg_b0", "source">>),
      Conn(wf_name, datasink, <<"eddy", "out_corrected">>, <<"diff", "@eddy_corrected">>),
      Conn(wf_name, datasink, <<"dtifit", "V1">>,     <<"diff", "@v1">>),
      Conn(wf_name, datasink, <<"dtifit", "V2">>,     <<"diff", "@v2">>),
      Conn(wf_name, datasink, <<"dtifit", "V3">>,     <<"diff", "@v3">>),
      Conn(wf_name, datasink, <<"dtifit", "L1">>,     <<"diff", "@l1">>),
      Conn(wf_name, datasink, <<"dtifit", "L2">>,     <<"diff", "@l2">>),
      Conn(wf_name, datasink, <<"dtifit", "L3">>,     <<"diff", "@l3">>),
      Conn(wf_name, datasink, <<"dtifit", "MD">>,     <<"diff", "@mean_diffusivity">>),
      Conn(wf_name, datasink, <<"dtifit", "FA">>,     <<"diff", "@fractional_anisotropy">>),
      Conn(wf_name, datasink, <<"dtifit", "MO">>,     <<"diff", "@mode_of_anisotropy">>),
      Conn(wf_name, datasink, <<"dtifit", "S0">>,     <<"diff", "@s0">>),
      Conn(wf_name, datasink, <<"dtifit", "tensor">>, <<"diff", "@tensor">>) }

\* The sub-workflows of main_wf and the nodes they own.
SubWorkflows(wf_name) == {"input_files", "spm_anat_preproc", wf_name}
dti_nodes ==
    {"write_acqp", "extract_b0", "gunzip_b0", "coreg_b0", "brain_sel",
     "brain_split", "brain_merge", "eddy", "dtifit"}
\* spm_anat_preproc is attached by attach_spm_anat_preprocessing, which is not
\* among the sources: it is modelled by the two nodes that
\* attach_fsl_dti_preprocessing connects, without connections of their own.
anat_nodes == {"new_segment", "gunzip_anat"}
input_file_nodes == {"infosrc", "select"}

\* The name of a node of a sub-workflow inside main_wf.
Qualified(sub, node) == sub \o "." \o node

\* An edge of the flat graph: [src, out, dst, in], the nodes by their
\* qualified names.  An end that names a sub-workflow is resolved through
\* the first component of its dotted port; on the datasink the dotted name
\* "diff.@v1" is one input of the node itself.
Edge(src, out, dst, in) == [src |-> src, out |-> out, dst |-> dst, in |-> in]
Resolve(c, subs) ==
    Edge(IF c.src \in subs THEN Qualified(c.src, c.out[1]) ELSE c.src,
         IF c.src \in subs THEN Tail(c.out) ELSE c.out,
         IF c.dst \in subs THEN Qualified(c.dst, c.in[1]) ELSE c.dst,
         IF c.dst \in subs THEN Tail(c.in) ELSE c.in)

\* The connections of a sub-workflow, once it is a part of main_wf.
Namespaced(sub, conns) ==
    {Edge(Qualified(sub, c.src), c.out, Qualified(sub, c.dst), c.in) : c \in conns}

\* main_wf as attach_fsl_dti_preprocessing returns it (lines 232-266), on
\* the workflow of in_out_workflow.
main_wf_nodes(session_names, wf_name) ==
    {"datasink"}
    \cup (IF session_names = None THEN {} ELSE {"joinpath"})
    \cup {Qualified("input_files", n) : n \in input_file_nodes}
    \cup {Qualified("spm_anat_preproc", n) : n \in anat_nodes}
    \cup {Qualified(wf_name, n) : n \in dti_nodes}

\* fault variant: the connections across the sub-workflows are lost
main_wf_edges_NoBoundary(session_names, wf_name) ==
    Namespaced("input_files", input_file_connect)
    \cup Namespaced(wf_name, dti_connect)
    \cup {Resolve(c, SubWorkflows(wf_name)) : c \in in_out_connect(session_names)}

main_wf_edges(session_names, wf_name) ==
    Namespaced("input_files", input_file_connect)
    \cup Namespaced(wf_name, dti_connect)
    \cup {Resolve(c, SubWorkflows(wf_name)) :
            c \in in_out_connect(session_names)
                  \cup attach_dti_connect(Qualified("input_files", "select"),
                                          "datasink", wf_name)}

-----------------------------------------------------------------------------
(* The construction of a workflow, step by step.  While it is built, wf    *)
(* is [nodes, edges, interface, substitutions]: interface gives the        *)
(* interface class of every node, substitutions the datasink's input of    *)
(* that name.                                                              *)

\* Identifiers are names of folders ({subject_id}/{session_id}/{image_file},
\* input_files.py lines 16-17): texts without a path separator.
IdValues == {<<"a">>, <<"a", "b">>, <<"b", "a">>}
IdLists == UNION {[1..n -> IdValues] : n \in 0..MaxIds}
OptIdLists == {None} \cup {Some(l) : l \in IdLists}
\* os.listdir(base_dir): the folders of the data directory
Listings == {<<>>, <<<<"a">>>>, <<<<"a", "b">>, <<"b", "a">>>>}

\* fault variant: an empty list of subject ids falls back on the folders
subj_ids_EmptyFallsBack(subject_ids, listing) ==
    IF subject_ids = None \/ subject_ids = Some(<<>>) THEN listing ELSE subject_ids[1]

\* subject_session_input, lines 48-50 (_check_list leaves a list as it is)
subj_ids(subject_ids, listing) ==
    IF subject_ids = None THEN listing ELSE subject_ids[1]

\* subject_session_input, lines 53-54: the axes, session_names as it is given
fields(session_names, ids) ==
    << <<"session_id", session_names>>, <<"subject_id", Some(ids)>> >>

\* in_out_workflow, lines 68-73: the substitutions of the datasink
substitutions(session_names) ==
    << <<"_subject_id", "">> >>
    \o (IF session_names # None THEN << <<"_session_id_", "">> >> ELSE <<>>)

\* The interface classes: input_file_wf lines 100 and 104, in_out_workflow
\* lines 56 and 79, fsl_dti_preprocessing lines 174-185.
input_file_interfaces ==
    [n \in input_file_nodes |->
        IF n = "infosrc" THEN "IdentityInterface" ELSE "SelectFiles"]
dti_interfaces ==
    [n \in dti_nodes |->
        CASE n = "write_acqp"  -> "Function"
          [] n = "extract_b0"  -> "ExtractROI"
          [] n = "gunzip_b0"   -> "Gunzip"
          [] n = "coreg_b0"    -> "Coregister"
          [] n = "brain_sel"   -> "Select"
          [] n = "brain_split" -> "Split"
          [] n = "brain_merge" -> "MultiImageMaths"
          [] n = "eddy"        -> "Eddy"
          [] n = "dtifit"      -> "DTIFit"]
anat_interfaces ==
    [n \in anat_nodes |-> IF n = "new_segment" THEN "NewSegment" ELSE "Gunzip"]

\* The interfaces of a sub-workflow's nodes, by their names inside main_wf.
QualifiedMap(sub, f) ==
    [q \in {Qualified(sub, n) : n \in DOMAIN f} |->
        f[CHOOSE n \in DOMAIN f : Qualified(sub, n) = q]]

\* in_out_workflow, lines 52-89: the workflow it returns, for an
\* input_wf_name of "input_files" (the name attach_fsl_dti_preprocessing
\* expects, dti.py lines 222-224)
in_out_nodes(session_names) ==
    {"datasink"}
    \cup (IF session_names = None THEN {} ELSE {"joinpath"})
    \cup {Qualified("input_files", n) : n \in input_file_nodes}
in_out_edges(session_names) ==
    Namespaced("input_files", input_file_connect)
    \cup {Resolve(c, {"input_files"}) : c \in in_out_connect(session_names)}
in_out_interface(session_names) ==
    ("datasink" :> "DataSink")
    @@ (IF session_names = None THEN <<>> ELSE ("joinpath" :> "Function"))
    @@ QualifiedMap("input_files", input_file_interfaces)

NoArgs ==
    [builder |-> "", session_names |-> None, subject_ids |-> None, listing |-> <<>>]

in_out_workflow ==
    /\ build_pc = "start"
    /\ \E session_names \in OptIdLists, subject_ids \in OptIdLists, listing \in Listings :
          /\ build_args' = [builder |-> "in_out_workflow",
                            session_names |-> session_names,
                            subject_ids |-> subject_ids, listing |-> listing]
          /\ wf' = [nodes |-> in_out_nodes(session_names),
                    edges |-> in_out_edges(session_names),
                    interface |-> in_out_interface(session_names),
                    substitutions |-> substitutions(session_names)]
          /\ iterables' = fields(session_names, subj_ids(subject_ids, listing))
    /\ build_pc' = "built"
    /\ UNCHANGED <<build_err, instances>>
    /\ UNCHANGED <<wa_vars, run_pc, run_args, run_call, status, entered>>

\* A workflow of its own: the nodes are the ends of its connections.
NodesOf(conns) == {c.src : c \in conns} \cup {c.dst : c \in conns}
Standalone(conns, interface) ==
    [nodes |-> NodesOf(conns), edges |-> {Resolve(c, {}) : c \in conns},
     interface |-> interface, substitutions |-> <<>>]

\* fault variant: the template is fed back to the input node
group_template_connect_FedBack(wf_name) ==
    { Conn("grptemplate_input", "merge_time",         <<"in_files">>, <<"in_files">>),
      Conn("merge_time",        "average",            <<"out_file">>, <<"in_file">>),
      Conn("average",           wf_name \o "_smooth", <<"out_file">>, <<"in_file">>),
      Conn(wf_name \o "_smooth", "grptemplate_output", <<"out_file">>, <<"template">>),
      Conn("grptemplate_output", "grptemplate_input",  <<"template">>, <<"in_files">>) }

\* spm_create_group_template_wf, registration.py lines 254-264
group_template_connect(wf_name) ==
    { Conn("grptemplate_input", "merge_time",         <<"in_files">>, <<"in_files">>),
      Conn("merge_time",        "average",            <<"out_file">>, <<"in_file">>),
      Conn("average",           wf_name \o "_smooth", <<"out_file">>, <<"in_file">>),
      Conn(wf_name \o "_smooth", "grptemplate_output", <<"out_file">>, <<"template">>) }
\* registration.py lines 222-248
group_template_interface(wf_name) ==
    ("grptemplate_input" :> "IdentityInterface") @@ ("merge_time" :> "Function")
    @@ ("average" :> "Function") @@ ((wf_name \o "_smooth") :> "IsotropicSmooth")
    @@ ("grptemplate_output" :> "IdentityInterface")

spm_create_group_template_wf ==
    /\ build_pc = "start"
    /\ build_args' = [NoArgs EXCEPT !.builder = "spm_create_group_template_wf"]
    /\ wf' = Standalone(group_template_connect("spm_create_group_template"),
                        group_template_interface("spm_create_group_template"))
    /\ iterables' = <<>>
    /\ build_pc' = "built"
    /\ UNCHANGED <<build_err, instances>>
    /\ UNCHANGED <<wa_vars, run_pc, run_args, run_call, status, entered>>

\* spm_register_to_template_wf, registration.py lines 330-349
register_connect ==
    { Conn("reg_input",       "get_bbox",        <<"template">>, <<"in_file">>),
      Conn("reg_input",       "gunzip_input",    <<"in_file">>,  <<"in_file">>),
      Conn("reg_input",       "gunzip_template", <<"template">>, <<"in_file">>),
      Conn("gunzip_template", "warp2template",   <<"out_file">>, <<"template">>),
      Conn("get_bbox",        "warp2template",   <<"bbox">>,     <<"write_bounding_box">>),
      Conn("gunzip_input",    "warp2template",   <<"out_file">>, <<"source">>),
      Conn("warp2template",   "reg_output",      <<"normalization_parameters">>,
                                                 <<"warp_field">>),
      Conn("warp2template",   "reg_output",      <<"normalized_source">>, <<"warped">>) }
\* registration.py lines 311-325
register_interface ==
    ("reg_input" :> "IdentityInterface") @@ ("gunzip_template" :> "Gunzip")
    @@ ("gunzip_input" :> "Gunzip") @@ ("warp2template" :> "Normalize")
    @@ ("get_bbox" :> "Function") @@ ("reg_output" :> "IdentityInterface")

spm_register_to_template_wf ==
    /\ build_pc = "start"
    /\ build_args' = [NoArgs EXCEPT !.builder = "spm_register_to_template_wf"]
    /\ wf' = Standalone(register_connect, register_interface)
    /\ iterables' = <<>>
    /\ build_pc' = "built"
    /\ UNCHANGED <<build_err, instances>>
    /\ UNCHANGED <<wa_vars, run_pc, run_args, run_call, status, entered>>

-----------------------------------------------------------------------------
(* attach_fsl_dti_preprocessing(main_wf), lines 210-266.  find_wf_node and *)
(* attach_spm_anat_preprocessing are not among the sources: they follow    *)
(* the specification of the composer (discovery of a node by its role      *)
(* gives the node when exactly one node has the role and fails otherwise;  *)
(* a failed attach leaves the graph as it was).                            *)

NotResolved == None
find_wf_node(w, iface_type) ==
    LET matches == {n \in w.nodes : w.interface[n] = iface_type}
    IN  IF Cardinality(matches) = 1 THEN Some(CHOOSE n \in matches : TRUE)
        ELSE NotResolved

\* fault variant: the nodes are taken by the names in_out_workflow gives them
Discover_ByName(w) ==
    [in_files |-> Some(Qualified("input_files", "select")), datasink |-> Some("datasink")]

\* lines 235-236
Discover(w) ==
    [in_files |-> find_wf_node(w, "SelectFiles"),
     datasink |-> find_wf_node(w, "DataSink")]

UnresolvedBoundaryPortError == "UnresolvedBoundaryPortError"

\* lines 232-266: [err, wf], the error raised and main_wf afterwards
Attach(w, wf_name) ==
    LET found == Discover(w)
    IN  IF found.in_files = NotResolved \/ found.datasink = NotResolved
        THEN [err |-> Some(UnresolvedBoundaryPortError), wf |-> w]
        ELSE [err |-> None,
              wf  |-> [nodes |-> w.nodes
                                 \cup {Qualified("spm_anat_preproc", n) : n \in anat_nodes}
                                 \cup {Qualified(wf_name, n) : n \in dti_nodes},
                       edges |-> w.edges
                                 \cup Namespaced(wf_name, dti_connect)
                                 \cup {Resolve(c, SubWorkflows(wf_name)) :
                                         c \in attach_dti_connect(found.in_files[1],
                                                                  found.datasink[1],
                                                                  wf_name)},
                       interface |-> w.interface
                                 @@ QualifiedMap("spm_anat_preproc", anat_interfaces)
                                 @@ QualifiedMap(wf_name, dti_interfaces),
                       substitutions |-> w.substitutions]]

\* The workflows a caller hands over as main_wf: the workflow built so far,
\* with further file-selection or result-sink nodes of the caller's.
ExtraNodes == ("select_2" :> "SelectFiles") @@ ("datasink_2" :> "DataSink")
WithNodes(w, extra) ==
    [w EXCEPT !.nodes = w.nodes \cup extra,
              !.interface = w.interface @@ [n \in extra |-> ExtraNodes[n]]]

attach_fsl_dti_preprocessing ==
    /\ build_pc = "built"
    /\ \E extra \in SUBSET (DOMAIN ExtraNodes) :
          LET out == Attach(WithNodes(wf, extra), "fsl_dti_preproc")
          IN  /\ wf' = out.wf
              /\ build_err' = out.err
              /\ build_pc' = IF out.err = None THEN "attached" ELSE "failed"
    /\ UNCHANGED <<build_args, iterables, instances>>
    /\ UNCHANGED <<wa_vars, run_pc, run_args, run_call, status, entered>>

-----------------------------------------------------------------------------
(* The expansion of the workflow over infosrc.iterables by the engine      *)
(* (the iteration expander of the specification): one instance for every   *)
(* combination of one value of every axis, the first axis outermost.  An   *)
(* instance is its identifier tuple, field -> value.  The engine is not    *)
(* among the sources, and an axis without a list of values (session_names  *)
(* left None) is outside what the specification describes: no expansion    *)
(* is modelled for it.                                                     *)

RECURSIVE Flat(_)
Flat(ss) == IF ss = <<>> THEN <<>> ELSE Head(ss) \o Flat(Tail(ss))

RECURSIVE Product(_)
Product(axes) ==
    IF axes = <<>> THEN << <<>> >>
    ELSE LET field  == axes[1][1]
             values == axes[1][2][1]
             rest   == Product(Tail(axes))
         IN  Flat([i \in 1..Len(values) |->
                    [j \in 1..Len(rest) |-> (field :> values[i]) @@ rest[j]]])

Expand ==
    /\ build_pc \in {"built", "attached"}
    /\ \A i \in 1..Len(iterables) : iterables[i][2] # None
    /\ instances' = Product(iterables)
    /\ build_pc' = "expanded"
    /\ UNCHANGED <<wf, build_args, build_err, iterables>>
    /\ UNCHANGED <<wa_vars, run_pc, run_args, run_call, status, entered>>

\* The values an instance passes along the edges.  infosrc gives the values
\* of the instance's identifier tuple (an IdentityInterface: its outputs are
\* its inputs); joinpath (joinpaths of pypes.utils, not among the sources)
\* joins its two arguments as a path, arg1 first.
joinpaths(arg1, arg2) == Join(<<arg1, arg2>>, "/")
Feeds(n, in) == {e \in wf.edges : e.dst = n /\ e.in = in}
RECURSIVE OutputValue(_, _, _)
RECURSIVE InputValue(_, _, _)
OutputValue(inst, n, out) ==
    IF n = Qualified("input_files", "infosrc") THEN inst[out[1]]
    ELSE IF n = "joinpath"
    THEN joinpaths(InputValue(inst, n, <<"arg1">>), InputValue(inst, n, <<"arg2">>))
    ELSE <<>>
InputValue(inst, n, in) ==
    LET e == CHOOSE x \in Feeds(n, in) : TRUE
    IN  OutputValue(inst, e.src, e.out)

-----------------------------------------------------------------------------
(* run_wf(wf, plugin, n_cpus, **plugin_kwargs), lines 92-116               *)

Plugins == {None, Some(""), Some("MultiProc"), Some("Linear"), Some("SGE")}
\* n_cpus: a worker count, at least 1
Cpus == 1..MaxCpus
NoKwargs == <<>>
PluginKwargs == {NoKwargs, [plugin_args |-> [max_jobs |-> 1]]}

\* "not plugin": None and the empty string are false
Falsy(plugin) == plugin = None \/ plugin = Some("")

\* The call of wf.run: its plugin and plugin_args arguments (None when the
\* argument is not given).
WfRun(plugin, plugin_args) == [plugin |-> plugin, plugin_args |-> plugin_args]
NoCall == WfRun(None, None)

\* fault variant: MultiProc is run without its n_procs
RunWfCall_NoNProcs(plugin, n_cpus, plugin_kwargs) ==
    IF plugin = Some("MultiProc") /\ n_cpus > 1
    THEN WfRun(Some("MultiProc"), None)
    ELSE IF Falsy(plugin) \/ n_cpus <= 1
    THEN WfRun(None, None)
    ELSE WfRun(plugin, IF plugin_kwargs = NoKwargs THEN None
                       ELSE Some(plugin_kwargs.plugin_args))

RunWfCall(plugin, n_cpus, plugin_kwargs) ==
    IF plugin = Some("MultiProc") /\ n_cpus > 1
    THEN WfRun(Some("MultiProc"), Some([n_procs |-> n_cpus]))
    ELSE IF Falsy(plugin) \/ n_cpus <= 1
    THEN WfRun(None, None)
    ELSE WfRun(plugin, IF plugin_kwargs = NoKwargs THEN None
                       ELSE Some(plugin_kwargs.plugin_args))

-----------------------------------------------------------------------------
(* The execution of the graph by the engine behind wf.run: the node state  *)
(* machine Pending -> Ready -> Running -> Completed | Failed, with at most *)
(* as many Running nodes as the plugin has workers.                        *)

\* wf.run without a plugin runs the default plugin, Linear
EnginePlugin(call) == IF call.plugin = None THEN "Linear" ELSE call.plugin[1]

\* Workers of the plugin: Linear runs one node at a time, MultiProc n_procs
\* at a time, and any other plugin max_jobs at a time, without limit when
\* max_jobs is not given.  (MultiProc without n_procs uses every processor
\* of the machine: no limit that the caller has set.)
Workers(call, nodes) ==
    LET plugin == EnginePlugin(call)
        args   == IF call.plugin_args = None THEN <<>> ELSE call.plugin_args[1]
    IN  IF plugin = "Linear" THEN 1
        ELSE IF plugin = "MultiProc" /\ "n_procs" \in DOMAIN args THEN args.n_procs
        ELSE IF plugin # "MultiProc" /\ "max_jobs" \in DOMAIN args THEN args.max_jobs
        ELSE Cardinality(nodes)

Preds(n) == {e.src : e \in {x \in wf.edges : x.dst = n}}
RunningNodes == {n \in wf.nodes : status[n] = "Running"}

\* The nodes that can be reached from n along the edges, n excluded.
RECURSIVE ReachFrom(_, _)
ReachFrom(front, seen) ==
    LET next == {e.dst : e \in {x \in wf.edges : x.src \in front}} \ seen
    IN  IF next = {} THEN seen ELSE ReachFrom(next, seen \cup next)
Dependents(n) == ReachFrom({n}, {})

\* A Pending node is made Ready as soon as all its predecessors are Completed.
ReadyNow(st) ==
    {n \in wf.nodes : st[n] = "Pending" /\ \A p \in Preds(n) : st[p] = "Completed"}
Released(st) == [n \in wf.nodes |-> IF n \in ReadyNow(st) THEN "Ready" ELSE st[n]]

run_wf ==
    /\ run_pc = "built"
    /\ \E plugin \in Plugins, n_cpus \in Cpus, plugin_kwargs \in PluginKwargs :
          /\ run_args' = [plugin |-> plugin, n_cpus |-> n_cpus,
                          plugin_kwargs |-> plugin_kwargs]
          /\ run_call' = RunWfCall(plugin, n_cpus, plugin_kwargs)
    /\ run_pc' = "running"
    /\ status' = Released(status)
    /\ entered' = entered \cup ReadyNow(status)
    /\ UNCHANGED wf
    /\ UNCHANGED <<wa_vars, build_vars>>

StartNode(n) ==
    /\ run_pc = "running"
    /\ status[n] = "Ready"
    /\ Cardinality(RunningNodes) < Workers(run_call, wf.nodes)
    /\ status' = [status EXCEPT ![n] = "Running"]
    /\ UNCHANGED <<wf, run_pc, run_args, run_call, entered>>
    /\ UNCHANGED <<wa_vars, build_vars>>

CompleteNode(n) ==
    /\ run_pc = "running"
    /\ status[n] = "Running"
    /\ status' = Released([status EXCEPT ![n] = "Completed"])
    /\ entered' = entered \cup ReadyNow([status EXCEPT ![n] = "Completed"])
    /\ UNCHANGED <<wf, run_pc, run_args, run_call>>
    /\ UNCHANGED <<wa_vars, build_vars>>

\* A failed node takes all its dependents with it: none of them is run.
FailNode(n) ==
    /\ run_pc = "running"
    /\ status[n] = "Running"
    /\ status' = [m \in wf.nodes |->
                    IF m = n \/ m \in Dependents(n) THEN "Failed" ELSE status[m]]
    /\ UNCHANGED <<wf, run_pc, run_args, run_call, entered>>
    /\ UNCHANGED <<wa_vars, build_vars>>

SessionNames == {None, Some(<<"session_0">>)}

\* main_wf of in_out_workflow(session_names = ...) after
\* attach_fsl_dti_preprocessing(main_wf)
MainWf(session_names) ==
    [nodes |-> main_wf_nodes(session_names, "fsl_dti_preproc"),
     edges |-> main_wf_edges(session_names, "fsl_dti_preproc")]

RunInit(names) ==
    /\ wf \in {MainWf(session_names) : session_names \in names}
    /\ run_pc = "built"
    /\ run_args = [plugin |-> None, n_cpus |-> 1, plugin_kwargs |-> NoKwargs]
    /\ run_call = NoCall
    /\ status = [n \in wf.nodes |-> "Pending"]
    /\ entered = {}

RunNext ==
    \/ run_wf
    \/ \E n \in wf.nodes : StartNode(n)
    \/ \E n \in wf.nodes : CompleteNode(n)
    \/ \E n \in wf.nodes : FailNode(n)

-----------------------------------------------------------------------------
(* The specifications: Spec is a call of write_acquisition_parameters,     *)
(* RunSpec the execution of the composed workflow by run_wf, BuildSpec the *)
(* construction of a workflow and its expansion over the iterables.        *)

BuildIdle ==
    /\ build_pc = "idle"
    /\ build_args = NoArgs
    /\ build_err = None
    /\ iterables = <<>>
    /\ instances = <<>>

BuildInit ==
    /\ build_pc = "start"
    /\ build_args = NoArgs
    /\ build_err = None
    /\ iterables = <<>>
    /\ instances = <<>>
    /\ wf = [nodes |-> {}, edges |-> {}, interface |-> <<>>, substitutions |-> <<>>]
    /\ run_pc = "unbuilt"
    /\ run_args = [plugin |-> None, n_cpus |-> 1, plugin_kwargs |-> NoKwargs]
    /\ run_call = NoCall
    /\ status = <<>>
    /\ entered = {}

BuildNext ==
    \/ in_out_workflow
    \/ spm_create_group_template_wf
    \/ spm_register_to_template_wf
    \/ attach_fsl_dti_preprocessing
    \/ Expand

Init == WaInit /\ RunInit({None}) /\ BuildIdle
Next == WaNext
Spec == Init /\ [][Next]_vars

RunStart ==
    /\ wa_pc = "idle" /\ wa_in = NoImage /\ wa_loc = NoLocals /\ wa_err = None
    /\ fs = [f \in {acqp_file, index_file} |-> None]
    /\ RunInit(SessionNames)
    /\ BuildIdle
RunSpec == RunStart /\ [][RunNext]_vars

BuildStart ==
    /\ wa_pc = "idle" /\ wa_in = NoImage /\ wa_loc = NoLocals /\ wa_err = None
    /\ fs = [f \in {acqp_file, index_file} |-> None]
    /\ BuildInit
BuildSpec == BuildStart /\ [][BuildNext]_vars

-----------------------------------------------------------------------------
(* Vocabulary of the claims about write_acquisition_parameters.            *)

\* the error classes of the specification, by the place that raises them
MalformedMetadataError(e) == e.type = "ValueError" /\ e.line = 128
UnsupportedPhaseEncodingError(e) == e.type = "ValueError" /\ e.line = 135
InvalidDwellTimeError(e) == e.type \in {"ValueError", "KeyError"} /\ e.line = 140

Raised == wa_pc = "raised"
HeaderParsed == wa_pc \notin {"idle", "l128"} /\ ~(Raised /\ wa_err[1].line = 128)
PhaseDirOf == Get(wa_loc.descrip, K_phaseDir)
ValidPhaseDir == PhaseDirOf \in {Some(<<"+">>), Some(<<"-">>)}
PastPhaseDir == HeaderParsed /\ wa_pc # "l130"
PastDwell == PastPhaseDir /\ wa_pc # "l138"
VolumeCount == wa_in.shape[Len(wa_in.shape)]
NoOutputWritten ==
    \A f \in {acqp_file, index_file} : fs[f] \in {None, Some(StaleText)}

\* a text that is exactly one line: one newline, at its end
OneLine(text) == text # <<>> /\ Find(text, "\n") = Len(text)
Tokens(text) == Split(SubSeq(text, 1, Len(text) - 1), " ")
SignedInt(tok) ==
    IF tok # <<>> /\ tok[1] = "-" THEN 0 - ToInt(Tail(tok)) ELSE ToInt(tok)

\* C1: whenever the parsed metadata has a phaseDir other than "+" or "-", or
\* has none, the call has failed with the phase-encoding error, whose message
\* names the offending value (None for a missing key); this for every volume
\* count and every dwell entry of the header.
C1_UnsupportedPhaseDirFails ==
    (PastPhaseDir /\ ~ValidPhaseDir) =>
        /\ Raised
        /\ UnsupportedPhaseEncodingError(wa_err[1])
        /\ wa_err[1].msg = PhaseDirMsg \o PyStr(PhaseDirOf)
        /\ PyStr(PhaseDirOf) = (IF K_phaseDir \in DOMAIN wa_loc.descrip
                                THEN wa_loc.descrip[K_phaseDir]
                                ELSE <<"N", "o", "n", "e">>)

C1_Witness ==
    /\ Raised /\ HeaderParsed
    /\ K_phaseDir \notin DOMAIN wa_loc.descrip
    /\ K_dwell \in DOMAIN wa_loc.descrip
    /\ VolumeCount = MaxVolumes

\* C2: phaseDir "+" gives the axis (0, 1, 0) and "-" gives (0, -1, 0), and
\* once diff.acqp is written it is one line whose first three numbers are
\* these components.
AxisFor(phaseDir) == IF phaseDir = Some(<<"+">>) THEN <<0, 1, 0>> ELSE <<0, -1, 0>>
C2_AxisVector ==
    (PastPhaseDir /\ ValidPhaseDir) =>
        /\ ~(Raised /\ wa_err[1].line = 135)
        /\ LET t == Split(wa_loc.pe_axis, " ")
           IN  /\ Len(t) = 3
               /\ <<SignedInt(t[1]), SignedInt(t[2]), SignedInt(t[3])>> = AxisFor(PhaseDirOf)
        /\ wa_pc \in {"l144", "returned"} =>
              /\ fs[acqp_file] # None
              /\ OneLine(fs[acqp_file][1])
              /\ LET t == Tokens(fs[acqp_file][1])
                 IN  /\ Len(t) = 4
                     /\ <<SignedInt(t[1]), SignedInt(t[2]), SignedInt(t[3])>> = AxisFor(PhaseDirOf)

C2_Witness ==
    /\ wa_pc = "returned"
    /\ PhaseDirOf = Some(<<"-">>)
    /\ Tokens(fs[acqp_file][1])[2] = <<"-", "1">>

\* C3: for a valid phaseDir and a positive dwell the total readout time is
\* 127 * dwell / 1000, with the EPI factor 128 whatever the header holds.
DwellOf == ParseFloat(wa_loc.descrip[K_dwell]).val
IsPositive(v) == v.s = 1 /\ (v.k = "inf" \/ (v.k = "fin" /\ v.m > 0))
C3_ReadoutTime ==
    (PastDwell /\ ~Raised /\ IsPositive(DwellOf)) =>
        LET t == wa_loc.total_readout_time
            d == DwellOf
            lo == Min({t.e, d.e - 3})
        IN  /\ wa_loc.epi_factor = 128
            /\ t.k = d.k /\ t.s = 1
            /\ t.k = "fin" => t.m * Pow10(t.e - lo) = 127 * d.m * Pow10(d.e - 3 - lo)

C3_Witness ==
    /\ wa_pc = "returned"
    /\ wa_loc.descrip[K_dwell] = <<"0", ".", "3", "9">>
    /\ wa_loc.total_readout_time = Fin(1, 4953, -5)
    /\ Tokens(fs[acqp_file][1])[4] = <<"0", ".", "0", "4", "9", "5", "3">>

\* C4: after a successful call diff.index is one line of exactly N tokens,
\* each "1", N the size of the last dimension of the image.
C4_IndexFile ==
    wa_pc = "returned" =>
        /\ fs[index_file] # None
        /\ OneLine(fs[index_file][1])
        /\ LET t == Tokens(fs[index_file][1])
           IN  /\ Len(t) = VolumeCount
               /\ \A i \in 1..Len(t) : t[i] = <<"1">>

C4_Witness ==
    /\ wa_pc = "returned"
    /\ Len(wa_in.shape) = 4
    /\ VolumeCount = MaxVolumes
    /\ Len(Tokens(fs[index_file][1])) = MaxVolumes

\* C5: the call fails at the header parse exactly when some ";"-separated
\* segment has no "=" (an empty segment included); otherwise every segment
\* contributes its key (the text before its first "=") and the mapping holds,
\* for each key, the untrimmed text after the first "=" of the last segment
\* with that key.
HasEq(seg) == \E i \in 1..Len(seg) : seg[i] = "="
C5_HeaderParse ==
    wa_pc \notin {"idle", "l128"} =>
        LET segs == Split(wa_in.descrip, ";")
        IN  /\ Join(segs, ";") = wa_in.descrip
            /\ \A i \in 1..Len(segs) : Find(segs[i], ";") = 0
            /\ (\E i \in 1..Len(segs) : ~HasEq(segs[i]))
                  <=> (Raised /\ MalformedMetadataError(wa_err[1]))
            /\ (\A i \in 1..Len(segs) : HasEq(segs[i])) =>
                  /\ DOMAIN wa_loc.descrip =
                        {SubSeq(segs[i], 1, Find(segs[i], "=") - 1) : i \in 1..Len(segs)}
                  /\ \A i \in 1..Len(segs) :
                        LET eq  == Find(segs[i], "=")
                            key == SubSeq(segs[i], 1, eq - 1)
                        IN  (\A j \in (i + 1)..Len(segs) :
                                SubSeq(segs[j], 1, Find(segs[j], "=") - 1) # key)
                            => wa_loc.descrip[key] = SubSeq(segs[i], eq + 1, Len(segs[i]))

C5_Witness ==
    /\ Raised /\ MalformedMetadataError(wa_err[1])
    /\ Len(wa_in.descrip) > 1
    /\ wa_in.descrip[Len(wa_in.descrip)] = ";"
    /\ HasEq(Split(wa_in.descrip, ";")[1])

\* C6: with a valid phaseDir, a dwell text that float() rejects, or a missing
\* dwell key, makes the call fail with the dwell error and nothing is
\* written.
C6_InvalidDwellFails ==
    (PastDwell /\ ValidPhaseDir) =>
        LET d == wa_loc.descrip
        IN  /\ K_dwell \notin DOMAIN d =>
                  /\ Raised /\ InvalidDwellTimeError(wa_err[1])
                  /\ wa_err[1].msg = K_dwell
                  /\ NoOutputWritten
            /\ (K_dwell \in DOMAIN d /\ ~ParseFloat(d[K_dwell]).ok) =>
                  /\ Raised /\ InvalidDwellTimeError(wa_err[1])
                  /\ wa_err[1].msg = d[K_dwell]
                  /\ NoOutputWritten

C6_Witness ==
    /\ Raised /\ ValidPhaseDir
    /\ K_dwell \in DOMAIN wa_loc.descrip
    /\ wa_loc.descrip[K_dwell] = <<"a", "b", "c">>
    /\ wa_err[1].type = "ValueError"

-----------------------------------------------------------------------------
(* Vocabulary of the claims about the execution of the workflow.           *)

\* The predecessors the sources declare, node by node: <<predecessor, node>>
\* for every connection of input_file_wf, fsl_dti_preprocessing,
\* attach_fsl_dti_preprocessing and in_out_workflow.
DeclaredInternal ==
    { <<"input_files.infosrc",          "input_files.select">>,
      <<"fsl_dti_preproc.write_acqp",   "fsl_dti_preproc.eddy">>,
      <<"fsl_dti_preproc.extract_b0",   "fsl_dti_preproc.gunzip_b0">>,
      <<"fsl_dti_preproc.gunzip_b0",    "fsl_dti_preproc.coreg_b0">>,
      <<"fsl_dti_preproc.brain_sel",    "fsl_dti_preproc.coreg_b0">>,
      <<"fsl_dti_preproc.coreg_b0",     "fsl_dti_preproc.brain_split">>,
      <<"fsl_dti_preproc.brain_split",  "fsl_dti_preproc.brain_merge">>,
      <<"fsl_dti_preproc.brain_merge",  "fsl_dti_preproc.eddy">>,
      <<"fsl_dti_preproc.eddy",         "fsl_dti_preproc.dtifit">>,
      <<"fsl_dti_preproc.brain_merge",  "fsl_dti_preproc.dtifit">> }
DeclaredBoundary ==
    { <<"input_files.select",           "fsl_dti_preproc.eddy">>,
      <<"input_files.select",           "fsl_dti_preproc.write_acqp">>,
      <<"input_files.select",           "fsl_dti_preproc.extract_b0">>,
      <<"input_files.select",           "fsl_dti_preproc.dtifit">>,
      <<"spm_anat_preproc.new_segment", "fsl_dti_preproc.brain_sel">>,
      <<"spm_anat_preproc.gunzip_anat", "fsl_dti_preproc.coreg_b0">>,
      <<"fsl_dti_preproc.eddy",         "datasink">>,
      <<"fsl_dti_preproc.dtifit",       "datasink">> }
DeclaredContainer ==
    IF "joinpath" \in wf.nodes
    THEN { <<"input_files.infosrc", "joinpath">>, <<"joinpath", "datasink">> }
    ELSE { <<"input_files.infosrc", "datasink">> }
Declared == DeclaredInternal \cup DeclaredBoundary \cup DeclaredContainer

RECURSIVE DeclaredReach(_, _)
DeclaredReach(front, seen) ==
    LET next == {d[2] : d \in {x \in Declared : x[1] \in front}} \ seen
    IN  IF next = {} THEN seen ELSE DeclaredReach(next, seen \cup next)
Downstream(n) == DeclaredReach({n}, {})

Started(n) == status[n] \in {"Ready", "Running", "Completed"}

\* C7: a node is Ready, Running or Completed only when every predecessor the
\* sources declare for it, inside its sub-workflow or across sub-workflows,
\* is Completed.
C7_PredecessorsCompleted ==
    \A d \in Declared : Started(d[2]) => status[d[1]] = "Completed"

C7_Witness ==
    /\ status["fsl_dti_preproc.coreg_b0"] = "Running"
    /\ status["spm_anat_preproc.gunzip_anat"] = "Completed"
    /\ status["fsl_dti_preproc.eddy"] = "Pending"
    /\ EnginePlugin(run_call) = "MultiProc"

\* C8: every node downstream of a Failed node is Failed and has never been
\* Ready or Running, and a Failed node stays Failed (it is not run again).
C8_FailedDownstream ==
    \A f \in wf.nodes : status[f] = "Failed" =>
        \A d \in Downstream(f) : status[d] = "Failed" /\ d \notin entered
C8_FailedForGood ==
    \A n \in wf.nodes : status[n] = "Failed" => status'[n] = "Failed"
C8_FailurePropagates == []C8_FailedDownstream /\ [][C8_FailedForGood]_vars

\* one worker: the node that is Running was started after the failure
C8_Witness ==
    /\ Workers(run_call, wf.nodes) = 1
    /\ status["fsl_dti_preproc.write_acqp"] = "Failed"
    /\ "fsl_dti_preproc.write_acqp" \in entered
    /\ status["fsl_dti_preproc.dtifit"] = "Failed"
    /\ status["datasink"] = "Failed"
    /\ "datasink" \notin entered
    /\ status["fsl_dti_preproc.extract_b0"] = "Completed"
    /\ status["fsl_dti_preproc.gunzip_b0"] = "Running"

\* C9 as stated: whatever the plugin and n_cpus, no more than n_cpus nodes
\* are Running.
C9_RunningWithinNCpus ==
    run_pc = "running" => Cardinality(RunningNodes) <= run_args.n_cpus

\* C9, amended: with n_cpus >= 1 and the plugin "MultiProc", or no plugin,
\* or n_cpus = 1, no more than n_cpus nodes are Running in any interleaving.
C9_RunningWithinNCpusMultiProc ==
    ( /\ run_pc = "running"
      /\ run_args.n_cpus >= 1
      /\ \/ run_args.plugin = Some("MultiProc")
         \/ Falsy(run_args.plugin)
         \/ run_args.n_cpus = 1 )
    => Cardinality(RunningNodes) <= run_args.n_cpus

C9_Witness ==
    /\ run_args.plugin = Some("MultiProc")
    /\ run_args.n_cpus = MaxCpus
    /\ Cardinality(RunningNodes) = MaxCpus
    /\ \E n \in wf.nodes : status[n] = "Ready"

\* C10: for a non-empty plugin name the engine is called with that plugin,
\* and with the plugin_kwargs when the plugin is not "MultiProc".
C10_PluginUsed ==
    (run_pc = "running" /\ ~Falsy(run_args.plugin)) =>
        /\ run_call.plugin = run_args.plugin
        /\ run_args.plugin # Some("MultiProc") =>
              run_call.plugin_args =
                 (IF run_args.plugin_kwargs = NoKwargs THEN None
                  ELSE Some(run_args.plugin_kwargs.plugin_args))

-----------------------------------------------------------------------------
(* Vocabulary of the claims about the construction of the workflows.       *)

Expanded == build_pc = "expanded"
BuiltBy(builder) == build_args.builder = builder
\* the values the caller gives to the two axes
SessionAxis == build_args.session_names[1]
SubjectAxis ==
    IF build_args.subject_ids = None THEN build_args.listing
    ELSE build_args.subject_ids[1]
IdTuple(session, subject) == [session_id |-> session, subject_id |-> subject]
Distinct(l) == \A i, j \in 1..Len(l) : l[i] = l[j] => i = j

Matching(iface_type) == {n \in wf.nodes : wf.interface[n] = iface_type}
DtiNodes == {"fsl_dti_preproc." \o n : n \in
               {"write_acqp", "extract_b0", "gunzip_b0", "coreg_b0", "brain_sel",
                "brain_split", "brain_merge", "eddy", "dtifit"}}
AnatNodes == {"spm_anat_preproc.new_segment", "spm_anat_preproc.gunzip_anat"}
BoundaryEdges == {e \in wf.edges : (e.src \in DtiNodes) # (e.dst \in DtiNodes)}
AttachReturned == build_pc \in {"attached", "failed"}

\* C12: attach_fsl_dti_preprocessing finds the file-selection node and the
\* result-sink node of main_wf by their role.  With exactly one node of each
\* role it succeeds, and the boundary edges of the diffusion sub-workflow
\* come from that file-selection node (or from the anatomical sub-workflow)
\* and go to that result-sink node; with no node or two nodes of a role it
\* fails with UnresolvedBoundaryPortError and main_wf has no boundary edge
\* and no node of the sub-workflow.
C12_RoleDiscovery ==
    AttachReturned =>
        LET selects == Matching("SelectFiles")
            sinks   == Matching("DataSink")
        IN  IF Cardinality(selects) = 1 /\ Cardinality(sinks) = 1
            THEN /\ build_pc = "attached" /\ build_err = None
                 /\ {e.src : e \in {x \in BoundaryEdges : x.dst \in DtiNodes}}
                       \ AnatNodes = selects
                 /\ {e.dst : e \in {x \in BoundaryEdges : x.src \in DtiNodes}} = sinks
                 /\ Cardinality(BoundaryEdges) = 21
            ELSE /\ build_pc = "failed"
                 /\ build_err = Some("UnresolvedBoundaryPortError")
                 /\ BoundaryEdges = {}
                 /\ wf.nodes \cap DtiNodes = {}

\* two result sinks in the workflow of in_out_workflow: the attach fails
C12_Witness ==
    /\ build_pc = "failed"
    /\ BuiltBy("in_out_workflow")
    /\ Matching("DataSink") = {"datasink", "datasink_2"}
    /\ Cardinality(Matching("SelectFiles")) = 1

Attached == DtiNodes \subseteq wf.nodes
Sources(n, in) == {<<e.src, e.out>> : e \in {x \in wf.edges : x.dst = n /\ x.in = in}}
SinkPorts ==
    {"@eddy_corrected", "@v1", "@v2", "@v3", "@l1", "@l2", "@l3",
     "@mean_diffusivity", "@fractional_anisotropy", "@mode_of_anisotropy",
     "@s0", "@tensor"}

\* C13: in main_wf with the diffusion sub-workflow attached, no input port of
\* a node has two incoming edges, the edges inside fsl_dti_preprocessing and
\* the boundary edges taken together; eddy.in_file, eddy.in_mask,
\* dtifit.mask, coreg_b0.source and every diff.@* port of the result sink
\* have exactly one source.
C13_OneSourcePerPort ==
    Attached =>
        /\ \A e1, e2 \in wf.edges :
              (e1.dst = e2.dst /\ e1.in = e2.in) => e1 = e2
        /\ Cardinality(Sources("fsl_dti_preproc.eddy", <<"in_file">>)) = 1
        /\ Cardinality(Sources("fsl_dti_preproc.eddy", <<"in_mask">>)) = 1
        /\ Cardinality(Sources("fsl_dti_preproc.dtifit", <<"mask">>)) = 1
        /\ Cardinality(Sources("fsl_dti_preproc.coreg_b0", <<"source">>)) = 1
        /\ \A d \in Matching("DataSink"), port \in SinkPorts :
              Cardinality(Sources(d, <<"diff", port>>)) = 1

\* eddy: in_file from the file selection, in_mask from inside the sub-workflow
C13_Witness ==
    /\ build_pc = "attached"
    /\ Sources("fsl_dti_preproc.eddy", <<"in_file">>)
          = {<<"input_files.select", <<"diff">>>>}
    /\ Sources("fsl_dti_preproc.eddy", <<"in_mask">>)
          = {<<"fsl_dti_preproc.brain_merge", <<"out_file">>>>}
    /\ Sources("datasink", <<"diff", "@v1">>)
          = {<<"fsl_dti_preproc.dtifit", <<"V1">>>>}

\* The nodes that follow n along the edges of wf, in one or more steps.
RECURSIVE Follow(_, _)
Follow(front, seen) ==
    LET next == {e.dst : e \in {x \in wf.edges : x.src \in front}} \ seen
    IN  IF next = {} THEN seen ELSE Follow(next, seen \cup next)
After(n) == Follow({n}, {})

\* C14: whatever workflow has been built (in_out_workflow, with or without
\* the sub-workflows attach_fsl_dti_preprocessing adds and their boundary
\* edges, spm_create_group_template_wf, spm_register_to_template_wf), no
\* node follows itself along the edges, and every edge joins nodes of the
\* workflow.
C14_Acyclic ==
    /\ \A n \in wf.nodes : n \notin After(n)
    /\ \A e \in wf.edges : e.src \in wf.nodes /\ e.dst \in wf.nodes

\* the longest chain: from the folders to the result sink, across the two
\* boundaries of the diffusion sub-workflow
C14_Witness ==
    /\ build_pc = "attached"
    /\ "joinpath" \in wf.nodes
    /\ "fsl_dti_preproc.extract_b0" \in After("input_files.infosrc")
    /\ "datasink" \in After("fsl_dti_preproc.extract_b0")
    /\ After("datasink") = {}

\* The identifier tuples of the workflow: one value of every axis that has
\* values.
Axes == SelectSeq(iterables, LAMBDA axis : axis[2] # None)
IdTuples == {Product(Axes)[i] : i \in 1..Len(Product(Axes))}
Container(t) == InputValue(t, "datasink", <<"container">>)

\* C15: in a workflow of in_out_workflow the container of the datasink has
\* exactly one source; with session_names given its value is the path
\* subject_id/session_id of the instance, with session_names None the
\* subject_id; and two different identifier tuples have different containers.
C15_Container ==
    (BuiltBy("in_out_workflow") /\ build_pc # "start") =>
        /\ Cardinality(Sources("datasink", <<"container">>)) = 1
        /\ \A t \in IdTuples :
              Container(t) = IF build_args.session_names = None
                             THEN t.subject_id
                             ELSE t.subject_id \o <<"/">> \o t.session_id
        /\ \A t1, t2 \in IdTuples : t1 # t2 => Container(t1) # Container(t2)

\* "a" in "ba" and "ab" in "a": the same letters, two different paths
C15_Witness ==
    /\ BuiltBy("in_out_workflow") /\ build_pc = "built"
    /\ IdTuple(<<"b", "a">>, <<"a">>) \in IdTuples
    /\ IdTuple(<<"a">>, <<"a", "b">>) \in IdTuples
    /\ Container(IdTuple(<<"b", "a">>, <<"a">>)) = <<"a", "/", "b", "a">>
    /\ Container(IdTuple(<<"a">>, <<"a", "b">>)) = <<"a", "b", "/", "a">>

\* C16: write_acquisition_parameters writes only after the header is parsed
\* and the phase direction and the dwell are accepted: whenever it has
\* failed, diff.acqp and diff.index are as they were before the call (absent,
\* or with their old content), and a file is written only at lines 142-145,
\* without an error; when the phaseDir is not "+" or "-" and the dwell is
\* missing or unparseable, the error is the one of the phaseDir.
C16_NoWriteOnFailure ==
    /\ Raised =>
          /\ NoOutputWritten /\ fs[acqp_file] = fs[index_file]
          /\ \/ MalformedMetadataError(wa_err[1])
             \/ UnsupportedPhaseEncodingError(wa_err[1])
             \/ InvalidDwellTimeError(wa_err[1])
    /\ ~NoOutputWritten => wa_pc \in {"l144", "returned"} /\ wa_err = None
    /\ ( /\ PastPhaseDir /\ ~ValidPhaseDir
         /\ \/ K_dwell \notin DOMAIN wa_loc.descrip
            \/ ~ParseFloat(wa_loc.descrip[K_dwell]).ok )
       => Raised /\ UnsupportedPhaseEncodingError(wa_err[1]) /\ NoOutputWritten

\* old files, a phaseDir of " +" and a dwell of "abc": the phaseDir error
C16_Witness ==
    /\ Raised
    /\ fs = [f \in {acqp_file, index_file} |-> Some(StaleText)]
    /\ PhaseDirOf = Some(<<" ", "+">>)
    /\ Get(wa_loc.descrip, K_dwell) = Some(<<"a", "b", "c">>)
    /\ wa_err[1].line = 135

=============================================================================
